---- MODULE Spec2Model ----
(***************************************************************************)
(* Binary codecs of genie-rs: the recorded-game Player block               *)
(* (crates/genie-rec/src/player.rs), the player colour table               *)
(* (crates/genie-dat/src/color_table.rs) and the random map records        *)
(* (crates/genie-dat/src/random_map.rs).                                   *)
(*                                                                         *)
(* Player::read_from is one straight-line pull over a byte source.  The    *)
(* source is any finite byte string: its bytes are drawn when they are     *)
(* read, and it may end at any read.  One step of the model is the code    *)
(* from one sentinel joint up to the next; `reads` lists the reads of the  *)
(* last step in stream order, and positions are counted from the reader    *)
(* position at which that step started.  Format versions are written in    *)
(* hundredths (10.55 is 1055).                                             *)
(***************************************************************************)
EXTENDS Integers, Sequences, FiniteSets, TLC

\* ------------------------------------------------------------- bounds
\* Most bytes of a finite source the two scanning loops are run on.
MaxSource == 4
\* Most children a random map header declares in each of its four sections.
MaxChildren == 1
\* Total number of elements in the variable-length sequences of one block.
MaxElems == 2
\* Most bytes in front of the 11,11 pair that the resync scan is fed.
MaxScan == 3
\* Most non-marker bytes the forward scan of assert_marker! is fed.
MaxSkip == 1

\* Reader contexts <<version in hundredths, variant, player count>> a block is
\* decoded under.
ReaderContexts ==
    {<<1054, "UserPatch", 2>>, <<1055, "UserPatch", 3>>, <<1162, "UserPatch", 8>>,
     <<1196, "UserPatch", 1>>, <<1197, "UserPatch", 4>>, <<1198, "UserPatch", 2>>,
     <<1334, "UserPatch", 0>>,
     <<1197, "DefinitiveEdition", 2>>, <<1198, "DefinitiveEdition", 3>>,
     <<1300, "DefinitiveEdition", 8>>, <<1307, "DefinitiveEdition", 1>>,
     <<1313, "DefinitiveEdition", 4>>, <<1334, "DefinitiveEdition", 2>>}
PlayerTypes == {1, 2, 3, 4}
\* Byte values drawn where sentinel m is expected, and in the resync scan.
FoundBytes(m) == {m, 0}
ScanBytes == {0, 11}
\* 32-bit words drawn for the availability mask and the PlayerAI probe.
Words == {0, 1, 256}
\* Byte lengths drawn for strings and for the payload of a peer codec.
StrLens == {0, 3}
PeerSizes == {1, 5}

VARIABLES
    version,      \* RecordingHeaderReader::version(), in hundredths
    variant,      \* RecordingHeaderReader::variant()
    num_players,  \* RecordingHeaderReader::num_players()
    pc,           \* the sentinel joint Player::read_from stands at
    result,       \* "running", "ok" (Ok(player)), "err" (Err(error)), "panic"
    error,        \* the Err value returned
    player,       \* the Player under construction
    local,        \* locals of read_from that outlive one step
    reads,        \* the reads of the last step, in stream order
    marker,       \* the last sentinel comparison of the last step
    scanned,      \* bytes consumed so far by the resync scan
    dat           \* the genie-dat codec under test (see the second part)

vars == <<version, variant, num_players, pc, result, error, player, local,
          reads, marker, scanned, dat>>

ctx == <<version, variant, num_players>>

\* ------------------------------------------------------------- helpers
\* A read of n bytes for field f; a read of n elements of w bytes each.  The
\* byte size n * w of an array is only formed where it fits the checker's
\* integers.
Rd(f, n) == [f |-> f, n |-> n, w |-> 1, v |-> 0]
Arr(f, n, w) == [f |-> f, n |-> n, w |-> w, v |-> 0]
\* A read of n bytes that decodes to the value v.
Val(f, n, v) == [f |-> f, n |-> n, w |-> 1, v |-> v]

\* Bytes the last step consumed for field f.
BytesOf(f) ==
    LET idx == {i \in 1..Len(reads) : reads[i].f = f}
        RECURSIVE Sum(_)
        Sum(S) == IF S = {} THEN 0
                  ELSE LET i == CHOOSE x \in S : TRUE
                       IN reads[i].n * reads[i].w + Sum(S \ {i})
    IN Sum(idx)

HasRead(f) == \E i \in 1..Len(reads) : reads[i].f = f

\* Index of the first read of field f in the last step (0 when absent).
IndexOf(f) ==
    IF HasRead(f) THEN CHOOSE i \in 1..Len(reads) :
                           /\ reads[i].f = f
                           /\ \A j \in 1..(i - 1) : reads[j].f # f
    ELSE 0

Opt(cond, s) == IF cond THEN s ELSE <<>>

NoError == [kind |-> "none"]
NoMarker == [expected |-> -1, found |-> -1, macro |-> "none"]

UnexpectedEnd == [kind |-> "UnexpectedEnd"]
PeerError == [kind |-> "PeerError"]
MissingMarker(v, expected, found, skipped) ==
    [kind |-> "MissingMarker", version |-> v, expected |-> expected,
     found |-> found, skipped |-> skipped]
HeaderError(offset, cause) ==
    [kind |-> "HeaderError", offset |-> offset, cause |-> cause]

\* GameVariant is totally ordered by release.
VariantRank(v) ==
    CASE v = "AgeOfConquerors" -> 2
      [] v = "UserPatch" -> 3
      [] v = "DefinitiveEdition" -> 6

\* genie_support::f32_eq!: |a - b| < f32::EPSILON.  Two versions written in
\* hundredths that differ are at least 0.01 apart.
F32Eq(a, b) == a = b

Sentinels == version >= 1055
IsDE == variant = "DefinitiveEdition"
AtLeastDE == VariantRank(variant) >= VariantRank("DefinitiveEdition")

PlayerDefault ==
    [player_type |-> 0, relations |-> 0, diplomacy |-> 9, attributes |-> 0,
     saved_views |-> 0, userpatch_data |-> FALSE, tech_states |-> 0,
     history_info |-> [entries |-> 0, events |-> 0],
     tech_tree |-> FALSE, gaia |-> FALSE, unit_types |-> <<>>,
     visible_map |-> [width |-> 0, height |-> 0, tiles |-> 0],
     visible_resources |-> 0,
     units |-> 0, sleeping_units |-> 0, doppelganger_units |-> 0]

LocalDefault ==
    [num_attributes |-> 0, player_ai |-> FALSE, words |-> <<>>, decoded |-> <<>>]

\* Elements held by the variable-length sequences decoded so far.
Used(p, l) ==
    p.attributes + p.saved_views + p.tech_states + p.history_info.entries
        + p.history_info.events + Len(l.words) + p.visible_map.tiles
        + p.visible_resources + p.units + p.sleeping_units + p.doppelganger_units

Room == IF Used(player, local) >= MaxElems THEN 0
        ELSE MaxElems - Used(player, local)

\* ------------------------------------------------------------- outcomes
Running == result = "running"

Go(next, p, l, rd) ==
    /\ pc' = next
    /\ result' = "running"
    /\ error' = NoError
    /\ player' = p
    /\ local' = l
    /\ reads' = rd
    /\ scanned' = <<>>
    /\ UNCHANGED <<ctx, dat>>

\* An early return or an abort: the Player under construction and the locals
\* are dropped, nothing of them reaches the caller.
Stop(res, e, rd) ==
    /\ result' = res
    /\ error' = e
    /\ reads' = rd
    /\ player' = PlayerDefault
    /\ local' = LocalDefault
    /\ UNCHANGED <<pc, scanned, ctx, dat>>

\* The first arm of assert_marker! after a mismatch: skipped starts at 1, every
\* further byte that is not the marker adds one, and the error is returned when
\* the marker is read; a source that ends first fails the read.
MarkerMismatch(m, found) ==
    \/ \E j \in 0..MaxSkip :
          LET skipped == 1 + j
              position == 1 + j + 1
          IN Stop("err",
                  HeaderError(position - skipped,
                              MissingMarker(version, m, found, skipped)),
                  <<Rd("marker", 1), Rd("scan", j + 1)>>)
    \/ Stop("err", UnexpectedEnd, <<Rd("marker", 1), Rd("scan", 0)>>)

\* if version >= 10.55 { assert_marker!(input, m); }  followed by Pass
AssertMarker(gate, m, found, Pass) ==
    IF ~gate
    THEN marker' = NoMarker /\ Pass
    ELSE /\ marker' = [expected |-> m, found |-> found, macro |-> "assert_marker"]
         /\ IF found = m THEN Pass ELSE MarkerMismatch(m, found)

\* if version >= 10.55 { assert_eq!(input.read_u8()?, m); }  followed by Pass
AssertEq(gate, m, found, Pass) ==
    IF ~gate
    THEN marker' = NoMarker /\ Pass
    ELSE /\ marker' = [expected |-> m, found |-> found, macro |-> "assert_eq"]
         /\ IF found = m THEN Pass
            ELSE Stop("panic", NoError, <<Rd("marker", 1)>>)

M(gate) == Opt(gate, <<Rd("marker", 1)>>)

\* ------------------------------------------------------------- Init
Init ==
    /\ \E c \in ReaderContexts :
          version = c[1] /\ variant = c[2] /\ num_players = c[3]
    /\ pc = "player_type"
    /\ result = "running"
    /\ error = NoError
    /\ player = PlayerDefault
    /\ local = LocalDefault
    /\ reads = <<>>
    /\ marker = NoMarker
    /\ scanned = <<>>
    /\ dat = [kind |-> "none"]

\* ------------------------------------------------------------- field groups
\* Counts drawn for a u32 length field: what the element budget leaves, and
\* one count whose byte size does not fit 32 bits.
BigCount == 2 ^ 30
Counts == 0..Room
AttrCounts == Counts \cup {BigCount}
\* Signed 32-bit saved-view counts.
ViewCounts == {-2147483647 - 1, -7, -1} \cup Counts
SelCounts == {0, 2}

\* num_saved_views.try_into().unwrap_or(0): the length of saved_views.
SavedViewsLen_one(n) == IF n < 0 THEN 1 ELSE n
SavedViewsLen(n) == IF n < 0 THEN 0 ELSE n

HasSavedViews(v) == v >= 1162

\* (750|850|900, 100, 750|850|900, 100) u16 counters.
UnitCounts(v) ==
    IF v >= 1165 THEN <<900, 100, 900, 100>>
    ELSE IF v >= 1151 THEN <<850, 100, 850, 100>>
    ELSE <<750, 100, 750, 100>>

\* Reads from _pathing_attempt_cap to the selected units.
PathingReads(v, sel) ==
    <<Rd("pathing", 4 + 4),
      Rd("object_categories_count", 2 * UnitCounts(v)[1]),
      Rd("object_groups_count", 2 * UnitCounts(v)[2]),
      Rd("built_object_categories_count", 2 * UnitCounts(v)[3]),
      Rd("built_object_groups_count", 2 * UnitCounts(v)[4]),
      Rd("totals", 4 * 2),
      Rd("formations", 5 * 4 + 4 + (IF v >= 1081 THEN 4 ELSE 0)),
      Rd("escrow", 3 * 4 * 4)>>
    \o Opt(v >= 1051, <<Rd("view_scrolling", 8 * 4)>>)
    \o Opt(v >= 1145, <<Rd("ai_state", 4 + 4 + 1)>>)
    \o Opt(v >= 1172,
           <<Rd("selection", 4 + (IF sel > 0 THEN 4 + 4 + 4 * sel ELSE 0))>>)

\* The bytes skipped in front of the 11,11 scan.
PreSkip_flat(v) == 32435
PreSkip(v) ==
    32435 + (IF v >= 1300 THEN 8 ELSE 0) + (IF v >= 1307 THEN 1 ELSE 0)
          + (IF v >= 1313 THEN 5 ELSE 0) + (IF v >= 1334 THEN 4 ELSE 0)

\* if input.variant() == DefinitiveEdition { pre-skip and scan }
Resyncs(var) == var = "DefinitiveEdition"

\* One turn of the scan loop reads `second` only after a `first` equal to 11.
ReadsSecond_always(first) == TRUE
ReadsSecond(first) == first = 11

\* ------------------------------------------------------------- Player::read_from
ReadPlayerType ==
    /\ Running /\ pc = "player_type"
    /\ marker' = NoMarker
    /\ \E t \in PlayerTypes :
          Go("relations", [player EXCEPT !.player_type = t], local,
             <<Rd("player_type", 1)>>)

ReadRelations ==
    /\ Running /\ pc = "relations"
    /\ \E found \in FoundBytes(11), len \in StrLens :
          AssertMarker(Sentinels, 11, found,
              Go("num_attributes",
                 [player EXCEPT !.relations = num_players, !.diplomacy = 9],
                 local,
                 M(Sentinels) \o
                 <<Rd("relations", num_players), Rd("diplomacy", 4 * 9),
                   Rd("allied_los", 4), Rd("allied_victory", 1),
                   Rd("name", 2 + len)>>))

ReadNumAttributes ==
    /\ Running /\ pc = "num_attributes"
    /\ \E found \in FoundBytes(22), c \in AttrCounts :
          AssertMarker(Sentinels, 22, found,
              Go("attributes", player, [local EXCEPT !.num_attributes = c],
                 M(Sentinels) \o <<Rd("num_attributes", 4)>>))

\* (num_attributes * 4) as u64 is a u32 product: past 2^32 - 1 a build with
\* overflow checks aborts and one without wraps (4c mod 2^32 = 4 (c mod 2^30)).
MulOverflows(c) == c >= 2 ^ 30
WrappingMul4(c) == 4 * (c % (2 ^ 30))

ReadAttributes ==
    /\ Running /\ pc = "attributes"
    /\ \E found \in FoundBytes(33) :
          AssertMarker(Sentinels, 33, found,
              LET c == local.num_attributes
                  p == [player EXCEPT !.attributes = c]
                  rd == M(Sentinels) \o <<Arr("attributes", c, 4)>>
              IN IF ~AtLeastDE THEN Go("view", p, local, rd)
                 ELSE IF ~MulOverflows(c)
                      THEN Go("view", p, local, rd \o <<Rd("skip", c * 4)>>)
                      ELSE \/ Stop("panic", NoError, rd)
                           \/ Go("view", p, local,
                                 rd \o <<Rd("skip", WrappingMul4(c))>>))

ReadView ==
    /\ Running /\ pc = "view"
    /\ \E found \in FoundBytes(11), n \in ViewCounts :
          AssertMarker(Sentinels, 11, found,
              LET has == HasSavedViews(version)
                  len == IF has THEN SavedViewsLen(n) ELSE 0
              IN Go("color",
                    [player EXCEPT !.saved_views = len],
                    local,
                    M(Sentinels) \o <<Rd("initial_view", 4 + 4)>>
                    \o Opt(has, <<Val("num_saved_views", 4, n),
                                  Arr("saved_views", len, 4 + 4)>>)
                    \o <<Rd("spawn_location", 2 + 2), Rd("culture_id", 1),
                         Rd("civilization_id", 1), Rd("game_status", 1),
                         Rd("resigned", 1)>>))

ReadColor ==
    /\ Running /\ pc = "color"
    /\ \E found \in FoundBytes(11) :
          AssertEq(Sentinels, 11, found,
              Go("pathing", player, local, M(Sentinels) \o <<Rd("color", 1)>>))

ReadPathing ==
    /\ Running /\ pc = "pathing"
    /\ \E found \in FoundBytes(11), sel \in SelCounts :
          AssertEq(Sentinels, 11, found,
              Go(IF Resyncs(variant) THEN "pre_skip"
                 ELSE IF Sentinels THEN "strict1" ELSE "ai_counters",
                 player, local, M(Sentinels) \o PathingReads(version, sel)))

DePreSkip ==
    /\ Running /\ pc = "pre_skip"
    /\ marker' = NoMarker
    /\ Go("scan", player, local, <<Rd("pre_skip", PreSkip(version))>>)

\* loop { first; if first != 11 continue; second; if second != 11 continue; break }
ScanStep ==
    /\ Running /\ pc = "scan"
    /\ marker' = NoMarker
    /\ \E first \in ScanBytes, second \in ScanBytes :
          LET two == ReadsSecond(first)
              got == IF two THEN <<first, second>> ELSE <<first>>
              brk == two /\ first = 11 /\ second = 11
          IN /\ brk \/ Len(scanned) + Len(got) <= MaxScan
             /\ pc' = IF brk THEN "ai_counters" ELSE "scan"
             /\ scanned' = scanned \o got
             /\ reads' = <<Rd("scan", Len(got))>>
             /\ UNCHANGED <<result, error, player, local, ctx, dat>>

StrictMarker1 ==
    /\ Running /\ pc = "strict1"
    /\ \E found \in FoundBytes(11) :
          AssertMarker(Sentinels, 11, found,
              Go("strict2", player, local, M(Sentinels)))

StrictMarker2 ==
    /\ Running /\ pc = "strict2"
    /\ \E found \in FoundBytes(11) :
          AssertMarker(Sentinels, 11, found,
              Go("ai_counters", player, local, M(Sentinels)))

\* if genie_support::f32_eq!(input.version(), 11.97)
HasUserPatchData_from(v) == v >= 1197
HasUserPatchData(v) == F32Eq(v, 1197)

\* UserPatchData::read_from
UserPatchDataReads ==
    <<Rd("userpatch_data", 4080), Arr("category_priorities", 900, 2),
      Arr("group_priorities", 100, 2), Rd("userpatch_data", 2096)>>

\* TechState::read_from
TechStateBytes == 4 + 2 + 3 * 2 + 2 + (IF AtLeastDE THEN 15 ELSE 0)

\* PlayerTech::read_from
PlayerTechReads(n) == <<Rd("num_techs", 2), Arr("tech_states", n, TechStateBytes)>>

\* HistoryEntry::read_from, HistoryEvent::read_from
HistoryEntryBytes == 2 + 2
HistoryEventBytes == 1 + 4 + 4 + 3 * 4

\* Vec::with_capacity(cap) for elements of w bytes panics when cap * w exceeds
\* isize::MAX, which a capacity word can do where pointers are 32 bits wide;
\* where they are wider the request is passed to the allocator.
CapacityOverflows(cap, w) == cap > 2147483647 \div w

\* Values drawn for the three words of HistoryInfo that size or count nothing:
\* <<_num_events, entries_capacity, _value>>.
Placeholders == {0, 7}
CapacityWords == {0, 1, 2147483647}
Discriminators == {0, 22, 5}

\* The header of HistoryInfo up to entries_capacity.
HistoryHeaderReads(ne, ph, cap) ==
    <<Val("num_entries", 4, ne), Val("_num_events", 4, ph),
      Val("entries_capacity", 4, cap)>>

\* HistoryInfo::read_from
HistoryInfoReads(ne, nev, ph, cap, disc) ==
    HistoryHeaderReads(ne, ph, cap) \o
    <<Arr("entries", ne, HistoryEntryBytes), Val("_value", 1, disc),
      Val("num_events", 4, nev),
      Arr("events", nev, HistoryEventBytes), Arr("statistics", 17, 4),
      Arr("old_kills", 8, 2), Arr("old_kill_bvs", 8, 4), Arr("old_razings", 8, 2),
      Arr("old_razing_bvs", 8, 4), Rd("running", 3 * 4 + 2 * 2), Rd("_padding", 1)>>

\* DiplomacyOffer::read_from with a message of len bytes
DiplomacyOfferBytes(len) == 1 + 1 + 4 + 8 + 4 + 1 + len + 1

\* From the market block to the old player kills.
MarketReads(v) ==
    Opt(v >= 922, <<Arr("market", 11, 4)>>)
    \o Opt(v >= 967, <<Rd("prod_queue_enabled", 1)>>)
    \o Opt(v >= 990, <<Rd("dodging", 2)>>)
    \o Opt(v >= 1142, <<Rd("open_gates_for_pathing_count", 4)>>)
    \o Opt(v >= 1157, <<Rd("farm_queue_count", 4)>>)
    \o Opt(v >= 1175, <<Rd("nomad_build_lock", 4)>>)
    \o Opt(v >= 930, <<Arr("kills_razings", 6, 4)>>)
    \o Opt(v >= 931, <<Arr("hit_points", 2, 4)>>)
    \o Opt(v >= 932, <<Arr("old_player_kills", 9, 4)>>)

\* player.player_type == 3 && input.read_u32()? == 1: the probe is read only
\* for player type 3.
ReadsProbe_from2(t) == t >= 2
ReadsProbe(t) == t = 3
HasGaia(t) == t = 2

\* GaiaCreature, GaiaWolfInfo and GaiaData::read_from
GaiaCreatureBytes == 4 + 4 + 4
GaiaWolfInfoBytes == 4 + 4
GaiaDataBytes ==
    4 + 4 + 5 * GaiaCreatureBytes + 4 + 4 + 4 + 4 + 9 * 4 + 9 * 4 + 4 + 10 * 4
      + 4 + 4 + 25 * GaiaWolfInfoBytes + 4 + 10 * 4

\* *available = input.read_u32()? != 0
Available_one(word) == word = 1
Available(word) == word # 0

\* Availability words drawn for a mask of n entries.
MaskWords == {0, 256}
Masks(n) == [1..n -> MaskWords]

\* VisibleMap::read_from: map.width * map.height is a u32 product.
Dims ==
    {<<0, 0>>, <<65536, 65536>>}
        \cup {d \in (1..Room) \X (1..Room) : d[1] * d[2] <= Room}
TilesOverflow(w, h) == w >= 65536 /\ h >= 65536
TilesWrapped(w, h) == IF TilesOverflow(w, h) THEN 0 ELSE w * h
VisibleMapReads(v, tiles) ==
    <<Rd("width", 4), Rd("height", 4)>>
    \o Opt(v >= 670, <<Rd("explored_tiles_count", 4)>>)
    \o <<Rd("player_id", 2), Arr("tiles", tiles, IF AtLeastDE THEN 2 ELSE 1)>>

\* VisibleResource::read_from, VisibleResources::read_from
VisibleResourceBytes == 4 + 1 + 1 + 2
SizeLists ==
    {<<>>} \cup {<<k>> : k \in 0..(Room - 1)}
RECURSIVE SumSeq(_)
SumSeq(q) == IF q = <<>> THEN 0 ELSE Head(q) + SumSeq(Tail(q))
VisibleResourcesReads(sizes) ==
    <<Rd("num_lists", 4), Arr("sizes", Len(sizes), 4 + 4),
      Arr("resources", SumSeq(sizes), VisibleResourceBytes)>>

\* list_size, grow_size, then Unit::read_from until it yields None.
UnitListReads_nogrow(n, size) ==
    <<Rd("list_size", 4), Arr("unit", n, size), Rd("unit_none", 1)>>
UnitListReads(n, size) ==
    <<Rd("list_size", 4), Rd("grow_size", 4), Arr("unit", n, size),
      Rd("unit_none", 1)>>

ReadAiCounters ==
    /\ Running /\ pc = "ai_counters"
    /\ marker' = NoMarker
    /\ \E n \in Counts :
          Go("history",
             [player EXCEPT !.userpatch_data = HasUserPatchData(version),
                            !.tech_states = n],
             local,
             <<Rd("ty", 1), Rd("update_count", 4), Rd("update_count_need_help", 4)>>
             \o Opt(version >= 1002, <<Rd("ai_attack", 4 + 4 + 1 + 8 + 4 + 1 + 8)>>)
             \o <<Rd("fog_update", 4), Rd("update_time", 4)>>
             \o Opt(HasUserPatchData(version), UserPatchDataReads)
             \o PlayerTechReads(n)
             \o <<Rd("update_history_count", 4)>>)

\* assert_marker!(input, 11) in front of HistoryInfo carries no version gate.
ReadHistory ==
    /\ Running /\ pc = "history"
    /\ \E found \in FoundBytes(11), ne \in Counts, nev \in Counts,
          ph \in Placeholders, cap \in CapacityWords, disc \in Discriminators :
          /\ ne + nev <= Room
          /\ AssertMarker(TRUE, 11, found,
                \/ /\ CapacityOverflows(cap, HistoryEntryBytes)
                   /\ Stop("panic", NoError,
                           M(TRUE) \o HistoryHeaderReads(ne, ph, cap))
                \/ Go("diplomacy",
                      [player EXCEPT
                          !.history_info = [entries |-> ne, events |-> nev]],
                      local,
                      M(TRUE) \o HistoryInfoReads(ne, nev, ph, cap, disc)
                      \o Opt(version >= 530, <<Rd("ruin_held_time", 4),
                                               Rd("artifact_held_time", 4)>>)))

ReadDiplomacy ==
    /\ Running /\ pc = "diplomacy"
    /\ \E found \in FoundBytes(11), len \in StrLens :
          AssertMarker(Sentinels, 11, found,
              Go("off_map_trade", player, local,
                 M(Sentinels)
                 \o Opt(version >= 913,
                        <<Arr("diplomacy_detail", 9, 3 + DiplomacyOfferBytes(len)),
                          Rd("fealty", 2)>>)))

ReadOffMapTrade ==
    /\ Running /\ pc = "off_map_trade"
    /\ \E found \in FoundBytes(11) :
          AssertMarker(Sentinels, 11, found,
              Go("market", player, local,
                 M(Sentinels)
                 \o Opt(version >= 917, <<Rd("off_map_trade_route_explored", 20)>>)
                 \o Opt(version >= 918,
                        <<Rd("off_map_trade_route_being_explored", 20)>>)))

ReadMarket ==
    /\ Running /\ pc = "market"
    /\ \E found \in FoundBytes(11), size \in PeerSizes :
          AssertMarker(Sentinels, 11, found,
              LET rd == M(Sentinels) \o MarketReads(version)
                        \o Opt(AtLeastDE, <<Rd("skip", 11)>>)
              IN IF version >= 938
                 THEN \/ Stop("err", PeerError, rd)
                      \/ Go("player_ai", [player EXCEPT !.tech_tree = TRUE], local,
                            rd \o <<Rd("tech_tree", size)>>
                            \o Opt(AtLeastDE,
                                   <<Rd("skip", 4)>>
                                   \o Opt(player.player_type # 2, <<Rd("skip", 4)>>)))
                 ELSE Go("player_ai", player, local,
                         rd \o Opt(AtLeastDE,
                                   <<Rd("skip", 4)>>
                                   \o Opt(player.player_type # 2, <<Rd("skip", 4)>>))))

ReadPlayerAI ==
    /\ Running /\ pc = "player_ai"
    /\ \E found \in FoundBytes(11), probe \in Words, size \in PeerSizes :
          AssertMarker(Sentinels, 11, found,
              IF ReadsProbe(player.player_type)
              THEN IF probe = 1
                   THEN \/ Stop("err", PeerError,
                                M(Sentinels) \o <<Val("probe", 4, probe)>>)
                        \/ Go("gaia", player, [local EXCEPT !.player_ai = TRUE],
                              M(Sentinels) \o <<Val("probe", 4, probe),
                                                Rd("player_ai", size)>>)
                   ELSE Go("gaia", player, local,
                           M(Sentinels) \o <<Val("probe", 4, probe)>>)
              ELSE Go("gaia", player, local, M(Sentinels)))

ReadGaia ==
    /\ Running /\ pc = "gaia"
    /\ \E found \in FoundBytes(11) :
          AssertMarker(Sentinels, 11, found,
              IF HasGaia(player.player_type)
              THEN Go("unit_type_mask", [player EXCEPT !.gaia = TRUE], local,
                      M(Sentinels) \o <<Rd("gaia", GaiaDataBytes)>>)
              ELSE Go("unit_type_mask", player, local, M(Sentinels)))

ReadUnitTypeMask ==
    /\ Running /\ pc = "unit_type_mask"
    /\ \E found \in FoundBytes(11), n \in Counts :
          \E words \in Masks(n) :
              AssertMarker(Sentinels, 11, found,
                  Go("unit_types", player, [local EXCEPT !.words = words],
                     M(Sentinels) \o <<Rd("num_unit_types", 4),
                                       Arr("available_unit_types", n, 4)>>))

\* The sentinel between the mask and the unit types; the loop over the mask
\* then starts at its first entry.
NextUnitType(done, words) == IF done < Len(words) THEN "unit_type" ELSE "maps"

ReadUnitTypesMarker ==
    /\ Running /\ pc = "unit_types"
    /\ \E found \in FoundBytes(11) :
          AssertMarker(Sentinels, 11, found,
              Go(NextUnitType(0, local.words), player, local, M(Sentinels)))

\* An entry of the mask that is not available pushes None and reads nothing.
UnitTypeAbsent ==
    /\ Running /\ pc = "unit_type"
    /\ LET i == Len(player.unit_types) + 1
       IN /\ ~Available(local.words[i])
          /\ marker' = NoMarker
          /\ Go(NextUnitType(i, local.words),
                [player EXCEPT !.unit_types = Append(@, FALSE)], local, <<>>)

\* An available entry: sentinel 22, then CompactUnitType::read_from.
UnitTypeOpen ==
    /\ Running /\ pc = "unit_type"
    /\ LET i == Len(player.unit_types) + 1
       IN /\ Available(local.words[i])
          /\ \E found \in FoundBytes(22), size \in PeerSizes :
                AssertMarker(Sentinels, 22, found,
                    \/ Stop("err", PeerError, M(Sentinels))
                    \/ Go("unit_type_close", player,
                          [local EXCEPT !.decoded = Append(@, i)],
                          M(Sentinels) \o <<Rd("compact_unit_type", size)>>))

\* Sentinel 33 after the unit type, then Some(ty) is pushed.
UnitTypeClose ==
    /\ Running /\ pc = "unit_type_close"
    /\ LET i == Len(player.unit_types) + 1
       IN \E found \in FoundBytes(33) :
             AssertMarker(Sentinels, 33, found,
                 Go(NextUnitType(i, local.words),
                    [player EXCEPT !.unit_types = Append(@, TRUE)], local,
                    M(Sentinels)))

ReadMaps ==
    /\ Running /\ pc = "maps"
    /\ \E found \in FoundBytes(11), d \in Dims :
          AssertEq(Sentinels, 11, found,
              LET w == d[1]
                  h == d[2]
                  tiles == TilesWrapped(w, h)
                  map == [width |-> w, height |-> h, tiles |-> tiles]
                  rd == M(Sentinels) \o VisibleMapReads(version, tiles)
              IN \/ /\ TilesOverflow(w, h)
                    /\ Stop("panic", NoError,
                            M(Sentinels) \o VisibleMapReads(version, 0))
                 \/ \E sizes \in SizeLists :
                       /\ tiles + Len(sizes) + SumSeq(sizes) <= Room
                       /\ Go("units",
                             [player EXCEPT !.visible_map = map,
                                            !.visible_resources =
                                                Len(sizes) + SumSeq(sizes)],
                             local, rd \o VisibleResourcesReads(sizes)))

ReadUnits ==
    /\ Running /\ pc = "units"
    /\ \E found \in FoundBytes(11), n \in Counts, size \in PeerSizes :
          AssertEq(Sentinels, 11, found,
              \/ Stop("err", PeerError, M(Sentinels))
              \/ Go("sleeping_units", [player EXCEPT !.units = n], local,
                    M(Sentinels) \o UnitListReads(n, size)))

ReadSleepingUnits ==
    /\ Running /\ pc = "sleeping_units"
    /\ \E found \in FoundBytes(11), n \in Counts, size \in PeerSizes :
          AssertMarker(Sentinels, 11, found,
              \/ Stop("err", PeerError, M(Sentinels))
              \/ Go("doppelganger_units", [player EXCEPT !.sleeping_units = n],
                    local, M(Sentinels) \o UnitListReads(n, size)))

ReadDoppelgangerUnits ==
    /\ Running /\ pc = "doppelganger_units"
    /\ \E found \in FoundBytes(11), n \in Counts, size \in PeerSizes :
          AssertEq(Sentinels, 11, found,
              \/ Stop("err", PeerError, M(Sentinels))
              \/ Go("last_marker", [player EXCEPT !.doppelganger_units = n],
                    local, M(Sentinels) \o UnitListReads(n, size)))

\* The last sentinel, then Ok(player).
Finish ==
    /\ Running /\ pc = "last_marker"
    /\ \E found \in FoundBytes(11) :
          AssertEq(Sentinels, 11, found,
              /\ result' = "ok"
              /\ error' = NoError
              /\ reads' = M(Sentinels)
              /\ UNCHANGED <<pc, player, local, scanned, ctx, dat>>)

\* Any read of the step under way can find the source exhausted.
ShortRead ==
    /\ Running
    /\ marker' = NoMarker
    /\ Stop("err", UnexpectedEnd, <<>>)

Next ==
    \/ ReadPlayerType
    \/ ReadRelations
    \/ ReadNumAttributes
    \/ ReadAttributes
    \/ ReadView
    \/ ReadColor
    \/ ReadPathing
    \/ DePreSkip
    \/ ScanStep
    \/ StrictMarker1
    \/ StrictMarker2
    \/ ReadAiCounters
    \/ ReadHistory
    \/ ReadDiplomacy
    \/ ReadOffMapTrade
    \/ ReadMarket
    \/ ReadPlayerAI
    \/ ReadGaia
    \/ ReadUnitTypeMask
    \/ ReadUnitTypesMarker
    \/ UnitTypeAbsent
    \/ UnitTypeOpen
    \/ UnitTypeClose
    \/ ReadMaps
    \/ ReadUnits
    \/ ReadSleepingUnits
    \/ ReadDoppelgangerUnits
    \/ Finish
    \/ ShortRead

Spec == Init /\ [][Next]_vars

\* ------------------------------------------------------------- genie-dat codecs
\* The second part: ColorTable and the random map records.  `dat` holds one
\* codec exercise: the bytes offered to `from`, the value decoded or given, the
\* bytes `write_to` emitted, and for a value that is written first the value
\* read back from the emitted bytes.
playerVars == <<version, variant, num_players, pc, result, error, player, local,
                reads, marker, scanned>>

\* byteorder read_i32::<LE> at 0-based offset p: two's complement, low byte first.
I32At(b, p) ==
    LET hi == b[p + 4]
    IN b[p + 1] + 256 * b[p + 2] + 65536 * b[p + 3]
         + 16777216 * (IF hi >= 128 THEN hi - 256 ELSE hi)

\* byteorder write_i32::<LE>: the four bytes of v, low byte first.
WriteI32_be(v) ==
    <<(v \div 16777216) % 256, (v \div 65536) % 256, (v \div 256) % 256, v % 256>>
WriteI32(v) ==
    <<v % 256, (v \div 256) % 256, (v \div 65536) % 256, (v \div 16777216) % 256>>

\* ColorTable::from
ColorTableSize == 9 * 4
ColorTableFromBytes(b) ==
    [id |-> I32At(b, 0), base |-> I32At(b, 4), unit_outline_color |-> I32At(b, 8),
     unit_selection_colors |-> <<I32At(b, 12), I32At(b, 16)>>,
     minimap_colors |-> <<I32At(b, 20), I32At(b, 24), I32At(b, 28)>>,
     statistics_text_color |-> I32At(b, 32)]

\* ColorTable::write_to
ColorTableBytes(c) ==
    WriteI32(c.id) \o WriteI32(c.base) \o WriteI32(c.unit_outline_color)
    \o WriteI32(c.unit_selection_colors[1]) \o WriteI32(c.unit_selection_colors[2])
    \o WriteI32(c.minimap_colors[1]) \o WriteI32(c.minimap_colors[2])
    \o WriteI32(c.minimap_colors[3]) \o WriteI32(c.statistics_text_color)

\* RandomMapTerrain::from
RandomMapTerrainSize == 6 * 4
RandomMapTerrainFromBytes(b) ==
    [percent |-> I32At(b, 0), terrain_type |-> I32At(b, 4), clumps |-> I32At(b, 8),
     spacing |-> I32At(b, 12), base_terrain_type |-> I32At(b, 16),
     clumpiness_factor |-> I32At(b, 20)]

\* RandomMapTerrain::write_to
RandomMapTerrainBytes(t) ==
    WriteI32(t.percent) \o WriteI32(t.terrain_type) \o WriteI32(t.clumps)
    \o WriteI32(t.spacing) \o WriteI32(t.base_terrain_type)
    \o WriteI32(t.clumpiness_factor)

\* input.read_u32::<LE>()?.try_into().unwrap() into an i32: a u32 whose top bit
\* is set does not fit, and unwrap aborts; one that fits is the same number.
FitsI32At(b, p) == b[p + 4] < 128

\* RandomMapElevation::from
RandomMapElevationSize == 6 * 4
RandomMapElevationFromBytes(b) ==
    [percent |-> I32At(b, 0), height |-> I32At(b, 4), clumps |-> I32At(b, 8),
     spacing |-> I32At(b, 12), base_terrain_type |-> I32At(b, 16),
     base_elevation_type |-> I32At(b, 20)]

\* RandomMapElevation::write_to
RandomMapElevationBytes(e) ==
    WriteI32(e.percent) \o WriteI32(e.height) \o WriteI32(e.clumps)
    \o WriteI32(e.spacing) \o WriteI32(e.base_terrain_type)
    \o WriteI32(e.base_elevation_type)

\* byteorder read_i8 / write_i8, and read_u32::<LE> / write_u32::<LE>.  An
\* unsigned 32-bit word is held as its two 16-bit halves <<high, low>>.
I8At(b, p) == IF b[p + 1] >= 128 THEN b[p + 1] - 256 ELSE b[p + 1]
WriteI8(v) == <<v % 256>>
U32At(b, p) == <<b[p + 3] + 256 * b[p + 4], b[p + 1] + 256 * b[p + 2]>>
WriteU32(u) == <<u[2] % 256, u[2] \div 256, u[1] % 256, u[1] \div 256>>
WriteU16(v) == <<v % 256, v \div 256>>

\* UnitTypeID and its conversions from and to u32: a 32-bit id.
UnitTypeIDFromU32(u) == [id |-> u]
U32FromUnitTypeID(t) == t.id

\* RandomMapObject::from
RandomMapObjectSize == 4 + 4 + 1 + 1 + 2 + 8 * 4
RandomMapObjectFromBytes(b) ==
    [unit_type |-> UnitTypeIDFromU32(U32At(b, 0)), terrain_type |-> I32At(b, 4),
     group_flag |-> I8At(b, 8), scale_flag |-> I8At(b, 9),
     group_size |-> I32At(b, 12), group_size_variance |-> I32At(b, 16),
     group_count |-> I32At(b, 20), group_area |-> I32At(b, 24),
     player_id |-> I32At(b, 28), land_id |-> I32At(b, 32),
     min_distance_to_players |-> I32At(b, 36),
     max_distance_to_players |-> I32At(b, 40)]

\* RandomMapObject::write_to
RandomMapObjectBytes_pad(o) ==
    WriteU32(U32FromUnitTypeID(o.unit_type)) \o WriteI32(o.terrain_type)
    \o WriteU16(0) \o WriteI8(o.group_flag) \o WriteI8(o.scale_flag)
    \o WriteI32(o.group_size) \o WriteI32(o.group_size_variance)
    \o WriteI32(o.group_count) \o WriteI32(o.group_area)
    \o WriteI32(o.player_id) \o WriteI32(o.land_id)
    \o WriteI32(o.min_distance_to_players) \o WriteI32(o.max_distance_to_players)
RandomMapObjectBytes(o) ==
    WriteU32(U32FromUnitTypeID(o.unit_type)) \o WriteI32(o.terrain_type)
    \o WriteI8(o.group_flag) \o WriteI8(o.scale_flag) \o WriteU16(0)
    \o WriteI32(o.group_size) \o WriteI32(o.group_size_variance)
    \o WriteI32(o.group_count) \o WriteI32(o.group_area)
    \o WriteI32(o.player_id) \o WriteI32(o.land_id)
    \o WriteI32(o.min_distance_to_players) \o WriteI32(o.max_distance_to_players)

\* RandomMapLand::from
RandomMapLandSize == 4 + 1 + 2 + 1 + 4 + 4 + 1 + 1 + 2 + 4 + 4 + 1 + 1 + 2 + 3 * 4
RandomMapLandFromBytes(b) ==
    [id |-> I32At(b, 0), terrain_type |-> b[5],
     land_avoidance_tiles |-> I32At(b, 8), base_square_radius |-> I32At(b, 12),
     zone |-> I8At(b, 16), placement_type |-> I8At(b, 17),
     x |-> I32At(b, 20), y |-> I32At(b, 24),
     amount_of_land_used_percent |-> I8At(b, 28), by_player_flag |-> I8At(b, 29),
     radius |-> I32At(b, 32), fade |-> I32At(b, 36),
     clumpiness_factor |-> I32At(b, 40)]

\* RandomMapLand::write_to
RandomMapLandBytes(l) ==
    WriteI32(l.id) \o <<l.terrain_type>> \o WriteU16(0) \o <<0>>
    \o WriteI32(l.land_avoidance_tiles) \o WriteI32(l.base_square_radius)
    \o WriteI8(l.zone) \o WriteI8(l.placement_type) \o WriteU16(0)
    \o WriteI32(l.x) \o WriteI32(l.y)
    \o WriteI8(l.amount_of_land_used_percent) \o WriteI8(l.by_player_flag)
    \o WriteU16(0)
    \o WriteI32(l.radius) \o WriteI32(l.fade) \o WriteI32(l.clumpiness_factor)

\* #[derive(Default)]: every field zero.
Zeros(n) == [i \in 1..n |-> 0]
RandomMapLandDefault == RandomMapLandFromBytes(Zeros(RandomMapLandSize))
RandomMapTerrainDefault == RandomMapTerrainFromBytes(Zeros(RandomMapTerrainSize))
RandomMapObjectDefault == RandomMapObjectFromBytes(Zeros(RandomMapObjectSize))
RandomMapElevationDefault ==
    RandomMapElevationFromBytes(Zeros(RandomMapElevationSize))

\* vec![T::default(); n]
Repeat(x, n) == [i \in 1..n |-> x]

\* num.try_into().unwrap() from u32 to usize, and len.try_into().unwrap() back.
UsizeFromU32(u) == u[1] * 65536 + u[2]
U32FromUsize(n) == <<n \div 65536, n % 65536>>

\* RandomMapInfo::from: nine scalars, the second id and four (count, pointer)
\* pairs, 18 words in all.
RandomMapInfoSize == 9 * 4 + 4 + 4 * (4 + 4)
RandomMapInfoFromBytes(b) ==
    [id |-> I32At(b, 0),
     borders |-> <<I32At(b, 4), I32At(b, 8), I32At(b, 12), I32At(b, 16)>>,
     border_fade |-> I32At(b, 20), water_border |-> I32At(b, 24),
     base_terrain |-> I32At(b, 28), land_percent |-> I32At(b, 32),
     lands |-> Repeat(RandomMapLandDefault, UsizeFromU32(U32At(b, 40))),
     terrains |-> Repeat(RandomMapTerrainDefault, UsizeFromU32(U32At(b, 48))),
     objects |-> Repeat(RandomMapObjectDefault, UsizeFromU32(U32At(b, 56))),
     elevations |->
         Repeat(RandomMapElevationDefault, UsizeFromU32(U32At(b, 64)))]

\* RandomMapInfo::write_to
RandomMapInfoBytes_noid(info) ==
    WriteI32(info.id)
    \o WriteI32(info.borders[1]) \o WriteI32(info.borders[2])
    \o WriteI32(info.borders[3]) \o WriteI32(info.borders[4])
    \o WriteI32(info.border_fade) \o WriteI32(info.water_border)
    \o WriteI32(info.base_terrain) \o WriteI32(info.land_percent)
    \o WriteU32(U32FromUsize(Len(info.lands))) \o WriteU32(<<0, 0>>)
    \o WriteU32(U32FromUsize(Len(info.terrains))) \o WriteU32(<<0, 0>>)
    \o WriteU32(U32FromUsize(Len(info.objects))) \o WriteU32(<<0, 0>>)
    \o WriteU32(U32FromUsize(Len(info.elevations))) \o WriteU32(<<0, 0>>)
RandomMapInfoBytes(info) ==
    WriteI32(info.id)
    \o WriteI32(info.borders[1]) \o WriteI32(info.borders[2])
    \o WriteI32(info.borders[3]) \o WriteI32(info.borders[4])
    \o WriteI32(info.border_fade) \o WriteI32(info.water_border)
    \o WriteI32(info.base_terrain) \o WriteI32(info.land_percent)
    \o WriteI32(0)
    \o WriteU32(U32FromUsize(Len(info.lands))) \o WriteU32(<<0, 0>>)
    \o WriteU32(U32FromUsize(Len(info.terrains))) \o WriteU32(<<0, 0>>)
    \o WriteU32(U32FromUsize(Len(info.objects))) \o WriteU32(<<0, 0>>)
    \o WriteU32(U32FromUsize(Len(info.elevations))) \o WriteU32(<<0, 0>>)

\* The concatenation of a sequence of byte strings.
RECURSIVE Flatten(_)
Flatten(ws) == IF ws = <<>> THEN <<>> ELSE Head(ws) \o Flatten(Tail(ws))

\* The four child codecs of RandomMapInfo, by the name of the child type.
ChildSize(kind) ==
    CASE kind = "RandomMapLand" -> RandomMapLandSize
      [] kind = "RandomMapTerrain" -> RandomMapTerrainSize
      [] kind = "RandomMapObject" -> RandomMapObjectSize
      [] kind = "RandomMapElevation" -> RandomMapElevationSize
ChildFromBytes(kind, b) ==
    CASE kind = "RandomMapLand" -> RandomMapLandFromBytes(b)
      [] kind = "RandomMapTerrain" -> RandomMapTerrainFromBytes(b)
      [] kind = "RandomMapObject" -> RandomMapObjectFromBytes(b)
      [] kind = "RandomMapElevation" -> RandomMapElevationFromBytes(b)
ChildBytes(kind, x) ==
    CASE kind = "RandomMapLand" -> RandomMapLandBytes(x)
      [] kind = "RandomMapTerrain" -> RandomMapTerrainBytes(x)
      [] kind = "RandomMapObject" -> RandomMapObjectBytes(x)
      [] kind = "RandomMapElevation" -> RandomMapElevationBytes(x)
\* T::from(input) on the source from reader position pos on: "ok", "failed"
\* (the source ends inside the record) or "panicked" (an unwrap aborts).
ChildOutcome(kind, src, pos) ==
    IF /\ kind = "RandomMapElevation" /\ Len(src) - pos >= 4
       /\ ~FitsI32At(src, pos)
    THEN "panicked"
    ELSE IF Len(src) - pos < ChildSize(kind) THEN "failed" ELSE "ok"

\* std::io::copy(&mut input.by_ref().take(n), &mut sink())?: the position
\* after it.  copy reads until the limit or the end of the source, whichever
\* comes first, and the end of the source is no error to it.
TakeCopy(src, pos, n) == IF Len(src) - pos < n THEN Len(src) ELSE pos + n

\* for item in items.iter_mut() { *item = T::from(input)?; }  from the i-th
\* item on: the items are overwritten in place, one by one, up to the first
\* read that fails.
RECURSIVE FromEach(_, _, _, _, _)
FromEach(kind, src, pos, items, i) ==
    IF i > Len(items) THEN [status |-> "ok", items |-> items, pos |-> pos]
    ELSE LET st == ChildOutcome(kind, src, pos)
         IN IF st # "ok" THEN [status |-> st, items |-> items, pos |-> pos]
            ELSE FromEach(kind, src, pos + ChildSize(kind),
                          [items EXCEPT ![i] =
                              ChildFromBytes(kind,
                                  SubSeq(src, pos + 1, pos + ChildSize(kind)))],
                          i + 1)

\* RandomMapInfo::finish on the source from reader position pos on.
FinishFrom(info, src, pos) ==
    LET a == FromEach("RandomMapLand", src, TakeCopy(src, pos, 44), info.lands, 1)
        ia == [info EXCEPT !.lands = a.items]
    IN IF a.status # "ok" THEN [status |-> a.status, info |-> ia, pos |-> a.pos]
       ELSE
    LET b == FromEach("RandomMapTerrain", src, TakeCopy(src, a.pos, 8),
                      info.terrains, 1)
        ib == [ia EXCEPT !.terrains = b.items]
    IN IF b.status # "ok" THEN [status |-> b.status, info |-> ib, pos |-> b.pos]
       ELSE
    LET c == FromEach("RandomMapObject", src, TakeCopy(src, b.pos, 8),
                      info.objects, 1)
        ic == [ib EXCEPT !.objects = c.items]
    IN IF c.status # "ok" THEN [status |-> c.status, info |-> ic, pos |-> c.pos]
       ELSE
    LET d == FromEach("RandomMapElevation", src, TakeCopy(src, c.pos, 8),
                      info.elevations, 1)
    IN [status |-> d.status, info |-> [ic EXCEPT !.elevations = d.items],
        pos |-> d.pos]

\* for child in &children { child.write_to(output)?; }
WriteEach(kind, items) ==
    Flatten([i \in 1..Len(items) |-> ChildBytes(kind, items[i])])

\* RandomMapInfo::write_commands_to
RandomMapInfoCommandsBytes_withid(info) ==
    WriteI32(info.id)
    \o WriteI32(info.borders[1]) \o WriteI32(info.borders[2])
    \o WriteI32(info.borders[3]) \o WriteI32(info.borders[4])
    \o WriteI32(info.border_fade) \o WriteI32(info.water_border)
    \o WriteI32(info.base_terrain) \o WriteI32(info.land_percent)
    \o WriteU32(<<0, 0>>)
    \o WriteU32(U32FromUsize(Len(info.lands))) \o WriteU32(<<0, 0>>)
    \o WriteEach("RandomMapLand", info.lands)
    \o WriteU32(U32FromUsize(Len(info.terrains))) \o WriteU32(<<0, 0>>)
    \o WriteEach("RandomMapTerrain", info.terrains)
    \o WriteU32(U32FromUsize(Len(info.objects))) \o WriteU32(<<0, 0>>)
    \o WriteEach("RandomMapObject", info.objects)
    \o WriteU32(U32FromUsize(Len(info.elevations))) \o WriteU32(<<0, 0>>)
    \o WriteEach("RandomMapElevation", info.elevations)
RandomMapInfoCommandsBytes(info) ==
    WriteI32(info.borders[1]) \o WriteI32(info.borders[2])
    \o WriteI32(info.borders[3]) \o WriteI32(info.borders[4])
    \o WriteI32(info.border_fade) \o WriteI32(info.water_border)
    \o WriteI32(info.base_terrain) \o WriteI32(info.land_percent)
    \o WriteU32(<<0, 0>>)
    \o WriteU32(U32FromUsize(Len(info.lands))) \o WriteU32(<<0, 0>>)
    \o WriteEach("RandomMapLand", info.lands)
    \o WriteU32(U32FromUsize(Len(info.terrains))) \o WriteU32(<<0, 0>>)
    \o WriteEach("RandomMapTerrain", info.terrains)
    \o WriteU32(U32FromUsize(Len(info.objects))) \o WriteU32(<<0, 0>>)
    \o WriteEach("RandomMapObject", info.objects)
    \o WriteU32(U32FromUsize(Len(info.elevations))) \o WriteU32(<<0, 0>>)
    \o WriteEach("RandomMapElevation", info.elevations)

\* Inputs.  A byte string is a row of 4-byte words, all equal to one word but
\* for one field that holds another; a value is drawn the same way from signed
\* 32-bit integers.  The colour table of the minimal scenario is added.
WordBytes ==
    {<<0, 0, 0, 0>>, <<1, 0, 0, 0>>, <<255, 0, 0, 0>>, <<255, 255, 255, 255>>,
     <<0, 0, 0, 128>>, <<120, 86, 52, 18>>}
Ints == {0, 1, 255, -1, -2147483647 - 1, 2147483647, 305419896}
Trailing == {<<>>, <<7, 7>>}

RECURSIVE Row(_, _, _, _)
Row(n, at, w, bg) ==
    IF n = 0 THEN <<>>
    ELSE Row(n - 1, at, w, bg) \o (IF n = at THEN w ELSE bg)

ByteRows(fields) ==
    {Row(fields, at, w, bg) \o t :
        at \in 1..fields, w \in WordBytes, bg \in WordBytes, t \in Trailing}
IntRows(fields) ==
    {[i \in 1..fields |-> IF i = at THEN w ELSE bg] :
        at \in 1..fields, w \in Ints, bg \in Ints}

MinimalColorTable ==
    <<1, 0, 0, 0>> \o <<5, 0, 0, 0>> \o <<0, 0, 0, 0>> \o <<0, 0, 0, 0>>
    \o <<1, 0, 0, 0>> \o <<0, 0, 0, 0>> \o <<0, 0, 0, 0>> \o <<0, 0, 0, 0>>
    \o <<255, 0, 0, 0>>

ColorTableOf(r) ==
    [id |-> r[1], base |-> r[2], unit_outline_color |-> r[3],
     unit_selection_colors |-> <<r[4], r[5]>>,
     minimap_colors |-> <<r[6], r[7], r[8]>>, statistics_text_color |-> r[9]]
RandomMapTerrainOf(r) ==
    [percent |-> r[1], terrain_type |-> r[2], clumps |-> r[3], spacing |-> r[4],
     base_terrain_type |-> r[5], clumpiness_factor |-> r[6]]

RandomMapElevationOf(r) ==
    [percent |-> r[1], height |-> r[2], clumps |-> r[3], spacing |-> r[4],
     base_terrain_type |-> r[5], base_elevation_type |-> r[6]]

\* Words drawn for the two flags and the padding of a RandomMapObject, unit
\* type ids as <<high, low>>, and signed 8-bit flags.
FlagWords == {<<255, 128, 0, 0>>, <<1, 127, 0, 0>>, <<5, 6, 7, 8>>}
ObjectRows ==
    ByteRows(11)
        \cup {Row(11, 3, w, bg) : w \in FlagWords, bg \in WordBytes}
UnitIds == {<<0, 0>>, <<0, 45>>, <<1, 0>>, <<65535, 65535>>}
Flags == {<<0, 0>>, <<-1, -128>>, <<127, 1>>}
RandomMapObjectOf(r, id, f) ==
    [unit_type |-> UnitTypeIDFromU32(id), terrain_type |-> r[1],
     group_flag |-> f[1], scale_flag |-> f[2],
     group_size |-> r[2], group_size_variance |-> r[3], group_count |-> r[4],
     group_area |-> r[5], player_id |-> r[6], land_id |-> r[7],
     min_distance_to_players |-> r[8], max_distance_to_players |-> r[9]]

\* Random map headers: 18 words, of which one scalar differs from the others,
\* with the second id, the four counts and the four pointers drawn apart.
CountWord(n) == <<n % 256, n \div 256, 0, 0>>
HeaderBytes(at, w, bg, some, counts, ptr) ==
    Flatten([i \in 1..18 |->
        IF i = 10 THEN some
        ELSE IF i \in {11, 13, 15, 17} THEN CountWord(counts[(i - 9) \div 2])
        ELSE IF i \in {12, 14, 16, 18} THEN ptr
        ELSE IF i = at THEN w ELSE bg])
ChildCounts == [1..4 -> 0..MaxChildren]
SomeIds == {<<0, 0, 0, 0>>, <<16, 0, 0, 0>>}
Pointers == {<<0, 0, 0, 0>>, <<4, 3, 2, 1>>}
HeaderRows ==
    {HeaderBytes(at, w, bg, some, c, ptr) \o t :
        at \in 1..9, w \in WordBytes, bg \in {<<0, 0, 0, 0>>, <<255, 255, 255, 255>>},
        some \in SomeIds, c \in ChildCounts, ptr \in Pointers, t \in Trailing}

\* The header of the header-only scenario: id 0x10, borders (1, 2, 3, 4),
\* border_fade 5, water_border 6, base_terrain 7, land_percent 50, no child.
MinimalHeader ==
    Flatten(<<CountWord(16), CountWord(1), CountWord(2), CountWord(3),
              CountWord(4), CountWord(5), CountWord(6), CountWord(7),
              CountWord(50)>>) \o Zeros(9 * 4)
MinimalInfo ==
    [id |-> 16, borders |-> <<1, 2, 3, 4>>, border_fade |-> 5, water_border |-> 6,
     base_terrain |-> 7, land_percent |-> 50, lands |-> <<>>, terrains |-> <<>>,
     objects |-> <<>>, elevations |-> <<>>]

\* A header followed by its child payload region.  The payload's padding is
\* zero or the "duplicate data" a commands write puts there (the eight scalars
\* after the id, a zero id, and for each section its count and a zero
\* pointer); every word of every child is `w`.  The combined segment is offered
\* whole, cut short, or followed by two more bytes.
ChildWords == {<<2, 0, 0, 0>>, <<255, 0, 0, 0>>, <<255, 255, 255, 255>>}
PadStyles == {"zero", "duplicate"}
CommandsHeader(counts) ==
    HeaderBytes(1, <<16, 0, 0, 0>>, <<3, 0, 0, 0>>, <<0, 0, 0, 0>>, counts,
                <<0, 0, 0, 0>>)
SectionPad(style, counts, k) ==
    IF style = "zero" THEN Zeros(8) ELSE CountWord(counts[k]) \o Zeros(4)
Children(kind, n, w) ==
    Flatten([i \in 1..n |-> Row(ChildSize(kind) \div 4, 0, w, w)])
Payload(style, counts, w) ==
    (IF style = "zero" THEN Zeros(36)
     ELSE SubSeq(CommandsHeader(counts), 5, 36) \o Zeros(4))
    \o SectionPad(style, counts, 1) \o Children("RandomMapLand", counts[1], w)
    \o SectionPad(style, counts, 2) \o Children("RandomMapTerrain", counts[2], w)
    \o SectionPad(style, counts, 3) \o Children("RandomMapObject", counts[3], w)
    \o SectionPad(style, counts, 4)
    \o Children("RandomMapElevation", counts[4], w)
Cuts(s) ==
    {s, s \o <<7, 7>>, SubSeq(s, 1, Len(s) - 1), SubSeq(s, 1, RandomMapInfoSize),
     SubSeq(s, 1, RandomMapInfoSize + 10), SubSeq(s, 1, RandomMapInfoSize + 44)}
CommandsSources ==
    UNION {Cuts(CommandsHeader(c) \o Payload(style, c, w)) :
              c \in ChildCounts, style \in PadStyles, w \in ChildWords}

\* A random map value with counts[k] children in its k-th section, each
\* decoded from a record whose every word is `w`; and the value finish is
\* called on to read it back: the same lengths, default children.  The fields
\* are private and a child is made by default() or from() only, so the values
\* there are hold the children from() returns.
Sections ==
    <<"RandomMapLand", "RandomMapTerrain", "RandomMapObject", "RandomMapElevation">>
Decodes(counts, w) ==
    \A k \in 1..4 :
        counts[k] = 0
        \/ ChildOutcome(Sections[k], Row(ChildSize(Sections[k]) \div 4, 0, w, w), 0)
              = "ok"
ChildrenOf(kind, n, w) ==
    [i \in 1..n |-> ChildFromBytes(kind, Row(ChildSize(kind) \div 4, 0, w, w))]
InfoOf(counts, w) ==
    [id |-> 16, borders |-> <<1, -2, 3, 4>>, border_fade |-> 5, water_border |-> 6,
     base_terrain |-> 7, land_percent |-> 50,
     lands |-> ChildrenOf("RandomMapLand", counts[1], w),
     terrains |-> ChildrenOf("RandomMapTerrain", counts[2], w),
     objects |-> ChildrenOf("RandomMapObject", counts[3], w),
     elevations |-> ChildrenOf("RandomMapElevation", counts[4], w)]
Blank(info) ==
    [info EXCEPT !.lands = Repeat(RandomMapLandDefault, Len(@)),
                 !.terrains = Repeat(RandomMapTerrainDefault, Len(@)),
                 !.objects = Repeat(RandomMapObjectDefault, Len(@)),
                 !.elevations = Repeat(RandomMapElevationDefault, Len(@))]

NoValue == [none |-> TRUE]

Exercise(kind, dir, bytes_in, value) ==
    [kind |-> kind, dir |-> dir, phase |-> "start", bytes_in |-> bytes_in,
     value |-> value, bytes_out |-> <<>>, value_back |-> NoValue, consumed |-> 0]

DatExercises ==
    {Exercise("ColorTable", "decode_encode", b, NoValue) :
        b \in ByteRows(9) \cup {MinimalColorTable, <<1, 0, 0>>}}
    \cup {Exercise("ColorTable", "encode_decode", <<>>, ColorTableOf(r)) :
        r \in IntRows(9)}
    \cup {Exercise("RandomMapTerrain", "decode_encode", b, NoValue) :
        b \in ByteRows(6) \cup {<<>>}}
    \cup {Exercise("RandomMapTerrain", "encode_decode", <<>>, RandomMapTerrainOf(r)) :
        r \in IntRows(6)}
    \cup {Exercise("RandomMapElevation", "decode_encode", b, NoValue) :
        b \in ByteRows(6) \cup {<<>>, <<0, 0, 0, 128, 1>>}}
    \cup {Exercise("RandomMapElevation", "encode_decode", <<>>,
                   RandomMapElevationOf(r)) :
        r \in IntRows(6)}

    \cup {Exercise("RandomMapObject", "decode_encode", b, NoValue) :
        b \in ObjectRows \cup {<<>>, <<1, 0, 0, 0, 2>>}}
    \cup {Exercise("RandomMapObject", "encode_decode", <<>>,
                   RandomMapObjectOf(r, id, f)) :
        r \in IntRows(9), id \in UnitIds, f \in Flags}

    \cup {Exercise("RandomMapInfo", "decode_encode", b, NoValue) :
        b \in HeaderRows
              \cup {MinimalHeader, SubSeq(MinimalHeader, 1, 56), <<>>}}

    \cup {Exercise("RandomMapInfo", "commands", b, NoValue) :
        b \in CommandsSources}

    \cup {Exercise("RandomMapInfo", "commands_back", t, InfoOf(p[1], p[2])) :
        p \in {q \in ChildCounts \X ChildWords : Decodes(q[1], q[2])},
        t \in Trailing}

InitDat ==
    /\ version = 0 /\ variant = "UserPatch" /\ num_players = 0
    /\ pc = "idle" /\ result = "idle" /\ error = NoError
    /\ player = PlayerDefault /\ local = LocalDefault
    /\ reads = <<>> /\ marker = NoMarker /\ scanned = <<>>
    /\ dat \in DatExercises

\* The bytes `from` reads: the input, or what write_to emitted for a value that
\* is written first.
DatSource == IF dat.dir = "encode_decode" THEN dat.bytes_out ELSE dat.bytes_in
DatFromReady ==
    \/ dat.dir \in {"decode_encode", "commands"} /\ dat.phase = "start"
    \/ dat.dir = "encode_decode" /\ dat.phase = "written"
DatWriteReady ==
    \/ dat.dir = "decode_encode" /\ dat.phase = "decoded"
    \/ dat.dir = "encode_decode" /\ dat.phase = "start"

\* `from` of a record of `size` bytes: a source that holds fewer fails the read.
DatFrom(size, v) ==
    /\ DatFromReady
    /\ dat' = IF Len(DatSource) < size
              THEN [dat EXCEPT !.phase = "failed"]
              ELSE IF dat.dir = "encode_decode"
                   THEN [dat EXCEPT !.phase = "done", !.value_back = v,
                                    !.consumed = size]
                   ELSE [dat EXCEPT !.phase = "decoded", !.value = v,
                                    !.consumed = size]
    /\ UNCHANGED playerVars

DatWrite(bytes) ==
    /\ DatWriteReady
    /\ dat' = [dat EXCEPT !.bytes_out = bytes,
                          !.phase = IF dat.dir = "decode_encode" THEN "done"
                                    ELSE "written"]
    /\ UNCHANGED playerVars

\* An unwrap of a conversion that fails aborts `from`.
DatPanic ==
    /\ DatFromReady
    /\ dat' = [dat EXCEPT !.phase = "panicked"]
    /\ UNCHANGED playerVars

ColorTableFrom ==
    /\ dat.kind = "ColorTable"
    /\ DatFrom(ColorTableSize, ColorTableFromBytes(DatSource))

ColorTableWriteTo ==
    /\ dat.kind = "ColorTable"
    /\ DatWrite(ColorTableBytes(dat.value))

RandomMapTerrainFrom ==
    /\ dat.kind = "RandomMapTerrain"
    /\ DatFrom(RandomMapTerrainSize, RandomMapTerrainFromBytes(DatSource))

RandomMapTerrainWriteTo ==
    /\ dat.kind = "RandomMapTerrain"
    /\ DatWrite(RandomMapTerrainBytes(dat.value))

\* percent is read and converted before the other five fields are read.
RandomMapElevationFrom ==
    /\ dat.kind = "RandomMapElevation"
    /\ IF Len(DatSource) >= 4 /\ ~FitsI32At(DatSource, 0)
       THEN DatPanic
       ELSE DatFrom(RandomMapElevationSize, RandomMapElevationFromBytes(DatSource))

RandomMapElevationWriteTo ==
    /\ dat.kind = "RandomMapElevation"
    /\ DatWrite(RandomMapElevationBytes(dat.value))

RandomMapObjectFrom ==
    /\ dat.kind = "RandomMapObject"
    /\ DatFrom(RandomMapObjectSize, RandomMapObjectFromBytes(DatSource))

RandomMapObjectWriteTo ==
    /\ dat.kind = "RandomMapObject"
    /\ DatWrite(RandomMapObjectBytes(dat.value))

RandomMapInfoFrom ==
    /\ dat.kind = "RandomMapInfo"
    /\ DatFrom(RandomMapInfoSize, RandomMapInfoFromBytes(DatSource))

RandomMapInfoWriteTo ==
    /\ dat.kind = "RandomMapInfo"
    /\ DatWrite(RandomMapInfoBytes(dat.value))

\* finish is called on the decoded header, with the reader right behind it.
RandomMapInfoFinish ==
    /\ dat.kind = "RandomMapInfo"
    /\ \/ /\ dat.dir = "commands" /\ dat.phase = "decoded"
          /\ LET f == FinishFrom(dat.value, dat.bytes_in, dat.consumed)
             IN dat' = [dat EXCEPT !.phase = IF f.status = "ok" THEN "finished"
                                             ELSE f.status,
                                   !.value = f.info,
                                   !.consumed = f.pos]
       \* on a value of the same lengths, over the bytes a commands write
       \* emitted and whatever follows them in the source
       \/ /\ dat.dir = "commands_back" /\ dat.phase = "written"
          /\ LET f == FinishFrom(Blank(dat.value), dat.bytes_out \o dat.bytes_in, 0)
             IN dat' = [dat EXCEPT !.phase = IF f.status = "ok" THEN "done"
                                             ELSE f.status,
                                   !.value_back = f.info,
                                   !.consumed = f.pos]
    /\ UNCHANGED playerVars

RandomMapInfoWriteCommandsTo ==
    /\ dat.kind = "RandomMapInfo"
    /\ \/ dat.dir = "commands" /\ dat.phase = "finished"
       \/ dat.dir = "commands_back" /\ dat.phase = "start"
    /\ dat' = [dat EXCEPT !.phase = IF dat.dir = "commands" THEN "done"
                                    ELSE "written",
                          !.bytes_out = RandomMapInfoCommandsBytes(dat.value)]
    /\ UNCHANGED playerVars

NextDat ==
    \/ ColorTableFrom
    \/ ColorTableWriteTo
    \/ RandomMapTerrainFrom
    \/ RandomMapTerrainWriteTo
    \/ RandomMapElevationFrom
    \/ RandomMapElevationWriteTo
    \/ RandomMapObjectFrom
    \/ RandomMapObjectWriteTo
    \/ RandomMapInfoFrom
    \/ RandomMapInfoWriteTo
    \/ RandomMapInfoFinish
    \/ RandomMapInfoWriteCommandsTo

SpecDat == InitDat /\ [][NextDat]_vars

\* ------------------------------------------------------------- the scanning loops
\* The third part: the forward scan of assert_marker! and the 11,11 scan of
\* the DefinitiveEdition branch, one read_u8 per step, on a finite source.
\* `dat` holds the reader (the source it wraps and its position, which starts
\* at `start` for the bytes read before) and the locals of the loop.
SourceBytes == {0, 11, 22}
Sources == UNION {[1..n -> SourceBytes] : n \in 0..MaxSource}
Markers == {11, 22}
StartPositions == {0, 2}

Loop(kind, m, source, start) ==
    [kind |-> kind, m |-> m, source |-> source, start |-> start,
     position |-> start, at |-> "first", found |-> -1, skipped |-> 0,
     turns |-> 0, outcome |-> "running", error |-> NoError]

InitLoops ==
    /\ version = 1334 /\ variant = "DefinitiveEdition" /\ num_players = 0
    /\ pc = "idle" /\ result = "idle" /\ error = NoError
    /\ player = PlayerDefault /\ local = LocalDefault
    /\ reads = <<>> /\ marker = NoMarker /\ scanned = <<>>
    /\ dat \in {Loop("assert_marker", m, src, p) :
                    m \in Markers, src \in Sources, p \in StartPositions}
               \cup {Loop("resync", 11, src, p) :
                        src \in Sources, p \in StartPositions}

\* read_u8()?: the source still holds a byte, which the read consumes, or the
\* read fails.
AtEnd(r) == r.position - r.start >= Len(r.source)
NextByte(r) == r.source[r.position - r.start + 1]
Advance(position) == position + 1
ReadFails(r) == [r EXCEPT !.outcome = "err", !.error = UnexpectedEnd]

\* $val.position() as u64 - skipped
MarkerOffset_position(position, skipped) == position
MarkerOffset(position, skipped) == position - skipped

\* while $val.read_u8()? != $marker
ScanContinues_always(byte, m) == TRUE
ScanContinues(byte, m) == byte # m

\* let found = $val.read_u8()?; if found != $marker { let mut skipped = 1; ...
MarkerFirstRead ==
    /\ dat.kind = "assert_marker" /\ dat.outcome = "running" /\ dat.at = "first"
    /\ dat' = IF AtEnd(dat) THEN ReadFails(dat)
              ELSE LET found == NextByte(dat)
                       r == [dat EXCEPT !.position = Advance(@), !.found = found]
                   IN IF found # dat.m
                      THEN [r EXCEPT !.skipped = 1, !.at = "scan"]
                      ELSE [r EXCEPT !.outcome = "passed"]
    /\ UNCHANGED playerVars

\* One turn of the while loop, and the return of the error behind it.
MarkerScanRead ==
    /\ dat.kind = "assert_marker" /\ dat.outcome = "running" /\ dat.at = "scan"
    /\ dat' = IF AtEnd(dat) THEN ReadFails(dat)
              ELSE LET byte == NextByte(dat)
                       r == [dat EXCEPT !.position = Advance(@), !.turns = @ + 1]
                   IN IF ScanContinues(byte, dat.m)
                      THEN [r EXCEPT !.skipped = @ + 1]
                      ELSE [r EXCEPT
                               !.outcome = "err",
                               !.error =
                                   HeaderError(MarkerOffset(r.position, r.skipped),
                                               MissingMarker(version, dat.m,
                                                             dat.found, r.skipped))]
    /\ UNCHANGED playerVars

\* let first = input.read_u8()?; if first != 11 { continue; }
ResyncFirstRead ==
    /\ dat.kind = "resync" /\ dat.outcome = "running" /\ dat.at = "first"
    /\ dat' = IF AtEnd(dat) THEN ReadFails(dat)
              ELSE LET first == NextByte(dat)
                       r == [dat EXCEPT !.position = Advance(@), !.turns = @ + 1]
                   IN IF first # 11 THEN r ELSE [r EXCEPT !.at = "second"]
    /\ UNCHANGED playerVars

\* let second = input.read_u8()?; if second != 11 { continue; } break;
ResyncSecondRead ==
    /\ dat.kind = "resync" /\ dat.outcome = "running" /\ dat.at = "second"
    /\ dat' = IF AtEnd(dat) THEN ReadFails(dat)
              ELSE LET second == NextByte(dat)
                       r == [dat EXCEPT !.position = Advance(@)]
                   IN IF second # 11 THEN [r EXCEPT !.at = "first"]
                      ELSE [r EXCEPT !.outcome = "broke"]
    /\ UNCHANGED playerVars

NextLoops ==
    \/ MarkerFirstRead
    \/ MarkerScanRead
    \/ ResyncFirstRead
    \/ ResyncSecondRead

\* A call that is under way goes on: the code is sequential.
SpecLoops == InitLoops /\ [][NextLoops]_vars /\ WF_vars(NextLoops)

\* ------------------------------------------------------------- claims
ValOf(f) == reads[IndexOf(f)].v
\* Field g is read right after field f in the last step.
Follows(f, g) ==
    /\ HasRead(f) /\ HasRead(g)
    /\ \E i \in 1..(Len(reads) - 1) :
          /\ reads[i].f = f /\ reads[i + 1].f = g
          /\ \A j \in (i + 1)..Len(reads) : reads[j].f # f
\* What the decode reports to its caller beside a Player: the Err it returns.
Reported == IF result = "err" THEN {error} ELSE {}

\* C1: at version >= 10.55 and a variant other than DefinitiveEdition, a
\* sentinel byte that differs from the expected marker ends the decode with
\* HeaderError{offset, MissingMarker{expected, found, version}}: no abort, no
\* other error kind.
C1_MismatchIsMissingMarker ==
    (version >= 1055 /\ ~IsDE /\ marker.macro # "none"
     /\ marker.found # marker.expected)
        => /\ result = "err"
           /\ error.kind = "HeaderError"
           /\ error.cause.kind = "MissingMarker"
           /\ error.cause.expected = marker.expected
           /\ error.cause.found = marker.found
           /\ error.cause.version = version

\* C2: at a version below 10.55 no step reads or checks a sentinel byte, and
\* no marker error is returned.
C2_NoSentinelBefore1055 ==
    version < 1055
        => /\ ~HasRead("marker")
           /\ marker = NoMarker
           /\ error.kind # "HeaderError"

\* C3: the resync scan stops right after the second byte of the first 11,11
\* pair of the bytes it is fed, so that the AI counter type byte is the next
\* read; as long as no pair was read it goes on, and it fails only by the end
\* of the source.
NoPair(q) == \A i \in 1..(Len(q) - 1) : ~(q[i] = 11 /\ q[i + 1] = 11)
C3_ScanStopsAfterFirstPair ==
    /\ pc = "scan" => /\ NoPair(scanned)
                      /\ result # "running" => error = UnexpectedEnd
    /\ (pc = "ai_counters" /\ Resyncs(variant) /\ scanned # <<>>)
          => LET n == Len(scanned)
             IN /\ n >= 2
                /\ scanned[n - 1] = 11 /\ scanned[n] = 11
                /\ NoPair(SubSeq(scanned, 1, n - 1))
    /\ (pc = "history" /\ result = "running") => reads[1].f = "ty"
C3_Witness ==
    pc = "ai_counters" /\ result = "running" /\ scanned = <<11, 0, 11, 11>>

\* C4: the pre-skip is taken only under DefinitiveEdition and is 32435 below
\* 13.00, 32443 from 13.00, 32444 from 13.07, 32449 from 13.13 and 32453 from
\* 13.34; it never shrinks as the version grows.
C4_Expected(v) ==
    CASE v < 1300 -> 32435
      [] v >= 1300 /\ v < 1307 -> 32435 + 8
      [] v >= 1307 /\ v < 1313 -> 32435 + 8 + 1
      [] v >= 1313 /\ v < 1334 -> 32435 + 8 + 1 + 5
      [] v >= 1334 -> 32453
C4_PreSkip ==
    /\ HasRead("pre_skip")
          => /\ variant = "DefinitiveEdition"
             /\ BytesOf("pre_skip") = C4_Expected(version)
             /\ \A c \in ReaderContexts :
                   c[1] <= version => PreSkip(c[1]) <= BytesOf("pre_skip")
    /\ pc \in {"pre_skip", "scan"} => variant = "DefinitiveEdition"
    /\ (variant = "DefinitiveEdition" /\ pc = "scan" /\ scanned = <<>>
        /\ result = "running") => HasRead("pre_skip")
C4_Witness ==
    /\ version = 1334 /\ variant = "DefinitiveEdition" /\ pc = "scan"
    /\ BytesOf("pre_skip") = 32453

\* C5: when N bytes precede the 11,11 pair of the resync scan, the decode goes
\* on and reports DesyncRecovered{skipped: N}.
C5_DesyncRecoveredReported ==
    (pc = "ai_counters" /\ Resyncs(variant) /\ result = "running"
     /\ Len(scanned) >= 2)
        => [kind |-> "DesyncRecovered", skipped |-> Len(scanned) - 2] \in Reported

\* C6: from 11.62 a negative saved-view count leaves saved_views empty and
\* reads nothing more for the field, a count n >= 0 reads n pairs of f32 (8n
\* bytes), and spawn_location is the next read; below 11.62 neither the count
\* nor a view is read.
C6_SavedViews ==
    (pc = "color" /\ result = "running")
        => IF version >= 1162
           THEN /\ Follows("initial_view", "num_saved_views")
                /\ BytesOf("num_saved_views") = 4
                /\ Follows("num_saved_views", "saved_views")
                /\ Follows("saved_views", "spawn_location")
                /\ LET n == ValOf("num_saved_views")
                   IN IF n < 0
                      THEN player.saved_views = 0 /\ BytesOf("saved_views") = 0
                      ELSE player.saved_views = n /\ BytesOf("saved_views") = 8 * n
           ELSE /\ ~HasRead("num_saved_views") /\ ~HasRead("saved_views")
                /\ player.saved_views = 0
                /\ Follows("initial_view", "spawn_location")
C6_Witness ==
    /\ pc = "color" /\ result = "running" /\ version = 1162
    /\ ValOf("num_saved_views") = -1
    /\ player.saved_views = 0

\* C7: a decoded block has gaia exactly for player type 2, has a PlayerAI only
\* for player type 3 with a probe equal to 1, never has both, and the 4-byte
\* probe is read exactly for player type 3.
C7_GaiaAndAI ==
    /\ (pc = "gaia" /\ result = "running")
          => /\ HasRead("probe") <=> player.player_type = 3
             /\ HasRead("probe") => BytesOf("probe") = 4
             /\ HasRead("player_ai") <=> local.player_ai
             /\ local.player_ai
                   <=> (player.player_type = 3 /\ HasRead("probe")
                        /\ ValOf("probe") = 1)
    /\ (pc = "unit_type_mask" /\ result = "running")
          => /\ HasRead("gaia") <=> player.gaia
             /\ player.gaia <=> player.player_type = 2
    /\ result = "ok"
          => /\ player.gaia <=> player.player_type = 2
             /\ local.player_ai => player.player_type = 3
             /\ ~(player.gaia /\ local.player_ai)
C7_Witness ==
    /\ result = "ok" /\ player.player_type = 3 /\ local.player_ai /\ ~player.gaia

\* C8: the UserPatchData payload (4080 + 1800 + 200 + 2096 bytes) is read
\* between update_time and PlayerTech, and userpatch_data is present, exactly
\* at version 11.97.
IsUserPatchRead(f) == f \in {"userpatch_data", "category_priorities", "group_priorities"}
C8_UserPatchGate ==
    /\ (pc = "history" /\ result = "running")
          => IF version = 1197
             THEN /\ player.userpatch_data
                  /\ Follows("update_time", "userpatch_data")
                  /\ Follows("userpatch_data", "num_techs")
                  /\ BytesOf("userpatch_data") + BytesOf("category_priorities")
                         + BytesOf("group_priorities") = 4080 + 1800 + 200 + 2096
             ELSE /\ ~player.userpatch_data
                  /\ \A i \in 1..Len(reads) : ~IsUserPatchRead(reads[i].f)
                  /\ Follows("update_time", "num_techs")
    /\ result = "ok" => (player.userpatch_data <=> version = 1197)
C8_Witness ==
    /\ pc = "history" /\ result = "running" /\ version = 1197
    /\ player.userpatch_data /\ BytesOf("userpatch_data") = 4080 + 2096

\* C9: a decoded Player has as many relations as the reader has players, nine
\* diplomacy entries, as many attributes as the decoded count, as many unit
\* types as the availability mask is long, and a unit type exactly at the
\* entries whose availability word is not zero, decoded in index order.
RECURSIVE Pick(_, _)
Pick(q, i) ==
    IF i > Len(q) THEN <<>>
    ELSE (IF q[i] # 0 THEN <<i>> ELSE <<>>) \o Pick(q, i + 1)
C9_LengthParity ==
    /\ (pc = "num_attributes" /\ result = "running")
          => /\ BytesOf("relations") = num_players
             /\ BytesOf("diplomacy") = 36
    /\ result = "ok"
          => /\ player.relations = num_players
             /\ player.diplomacy = 9
             /\ player.attributes = local.num_attributes
             /\ Len(player.unit_types) = Len(local.words)
             /\ \A i \in 1..Len(local.words) :
                   player.unit_types[i] <=> local.words[i] # 0
             /\ local.decoded = Pick(local.words, 1)
C9_Witness ==
    /\ result = "ok" /\ num_players = 8
    /\ local.words = <<256, 0>> /\ player.unit_types = <<TRUE, FALSE>>

\* C10: ColorTable (nine little-endian i32 in the order id, base, unit outline,
\* two selection, three minimap, statistics text) and RandomMapTerrain (six
\* i32) read exactly 36 and 24 bytes, write exactly as many, and writing what
\* was read gives back the bytes, reading what was written gives back the
\* value.
C10_Size(kind) == IF kind = "ColorTable" THEN 36 ELSE 24
C10_RoundTrip ==
    dat.kind \in {"ColorTable", "RandomMapTerrain"}
        => /\ (dat.dir = "decode_encode" /\ dat.phase = "done")
                 => /\ dat.bytes_out = SubSeq(dat.bytes_in, 1, C10_Size(dat.kind))
                    /\ dat.consumed = C10_Size(dat.kind)
           /\ (dat.dir = "encode_decode" /\ dat.phase = "done")
                 => /\ dat.value_back = dat.value
                    /\ Len(dat.bytes_out) = C10_Size(dat.kind)
                    /\ dat.consumed = C10_Size(dat.kind)
           /\ (dat.phase = "failed") => Len(dat.bytes_in) < C10_Size(dat.kind)
           /\ (dat.kind = "ColorTable" /\ dat.bytes_in = MinimalColorTable
               /\ dat.phase \in {"decoded", "done"})
                 => dat.value = [id |-> 1, base |-> 5, unit_outline_color |-> 0,
                                 unit_selection_colors |-> <<0, 1>>,
                                 minimap_colors |-> <<0, 0, 0>>,
                                 statistics_text_color |-> 255]
C10_Witness ==
    /\ dat.kind = "ColorTable" /\ dat.dir = "decode_encode" /\ dat.phase = "done"
    /\ dat.value.unit_selection_colors = <<-1, 305419896>>
    /\ Len(dat.bytes_in) = 38

\* C11: RandomMapElevation::from succeeds on every 24-byte string, also one
\* whose percent field has its top bit set, and write_to of the decoded value
\* emits the same 24 bytes.
C11_ElevationRoundTrip ==
    (dat.kind = "RandomMapElevation" /\ dat.dir = "decode_encode"
     /\ Len(dat.bytes_in) = RandomMapElevationSize)
        => /\ dat.phase \notin {"failed", "panicked"}
           /\ dat.phase = "done" => dat.bytes_out = dat.bytes_in

PointersZero(b) == \A i \in {12, 14, 16, 18}, k \in 1..4 : b[4 * (i - 1) + k] = 0
C13_HeaderRoundTrip ==
    (dat.kind = "RandomMapInfo" /\ dat.dir = "decode_encode" /\ dat.phase = "done"
     /\ PointersZero(dat.bytes_in))
        => dat.bytes_out = SubSeq(dat.bytes_in, 1, dat.consumed)

\* C14 as stated: the header of the header-only scenario is 56 bytes long,
\* from consumes 56 bytes and write_to emits 56 bytes.
C14_HeaderIs56Bytes ==
    (dat.kind = "RandomMapInfo" /\ dat.dir = "decode_encode" /\ dat.phase = "done"
     /\ dat.value = MinimalInfo)
        => /\ dat.consumed = 56
           /\ Len(dat.bytes_out) = 56
\* C14, amended: the header of the header-only scenario (second id and
\* pointers zero) is 72 bytes long: from consumes 72 bytes and decodes the
\* scenario's fields with four empty child sequences, write_to emits the same
\* 72 bytes, and from fails on the first 56 bytes alone.
C14_HeaderIs72Bytes ==
    /\ (dat.kind = "RandomMapInfo" /\ dat.dir = "decode_encode"
        /\ Len(dat.bytes_in) >= 72 /\ SubSeq(dat.bytes_in, 1, 72) = MinimalHeader)
          => /\ dat.phase # "failed"
             /\ dat.phase # "start" => dat.consumed = 72 /\ dat.value = MinimalInfo
             /\ dat.phase = "done" => dat.bytes_out = MinimalHeader
    /\ (dat.kind = "RandomMapInfo" /\ dat.bytes_in = SubSeq(MinimalHeader, 1, 56))
          => dat.phase \in {"start", "failed"}
    /\ Len(MinimalHeader) = 72
C14_Witness ==
    /\ dat.kind = "RandomMapInfo" /\ dat.phase = "done"
    /\ dat.bytes_in = MinimalHeader /\ dat.value = MinimalInfo
    /\ Len(dat.bytes_out) = 72

\* The size of the child payload region of a random map.
FinishSize(info) ==
    44 + 44 * Len(info.lands) + 8 + 24 * Len(info.terrains)
       + 8 + 44 * Len(info.objects) + 8 + 24 * Len(info.elevations)

\* C15: for a header immediately followed by its child payload region, with
\* zero pointer bytes, from, then finish, then write_commands_to emits the
\* segment that from and finish consumed: as many bytes, the same bytes, the
\* leading id and the padding before each child section included.
C15_CommandsRoundTrip ==
    (dat.kind = "RandomMapInfo" /\ dat.dir = "commands" /\ dat.phase = "done"
     /\ Len(dat.bytes_in) >= RandomMapInfoSize + FinishSize(dat.value))
        => /\ Len(dat.bytes_out) = dat.consumed
           /\ dat.bytes_out = SubSeq(dat.bytes_in, 1, dat.consumed)

\* C17: finish consumes 44 + 44 |lands| + 8 + 24 |terrains| + 8 + 44 |objects|
\* + 8 + 24 |elevations| bytes when it succeeds, and fails when the source
\* holds fewer bytes than that behind the header, also when the bytes missing
\* are padding.
C17_FinishSizeOrFailure ==
    (dat.kind = "RandomMapInfo" /\ dat.dir = "commands"
     /\ dat.phase \in {"finished", "failed", "panicked", "done"})
        => /\ dat.phase \in {"finished", "done"}
                => dat.consumed = RandomMapInfoSize + FinishSize(dat.value)
           /\ Len(dat.bytes_in) - RandomMapInfoSize < FinishSize(dat.value)
                => dat.phase \in {"failed", "panicked"}

\* C16: a decoded VisibleMap holds width x height tiles, the product taken in
\* the integers: a map whose dimensions multiply to 2^32 or more is not
\* returned with the product reduced modulo 2^32.
ProductIs(w, h, n) == IF w = 0 THEN n = 0 ELSE n % w = 0 /\ n \div w = h
C16_TilesIsProduct ==
    (pc \in {"units", "sleeping_units", "doppelganger_units", "last_marker"}
     /\ result \in {"running", "ok"})
        => ProductIs(player.visible_map.width, player.visible_map.height,
                     player.visible_map.tiles)

\* C19: the attribute values take 4 c bytes for the decoded count c, and under
\* a variant >= DefinitiveEdition exactly 4 c further bytes are skipped, with
\* no wrap-around and no abort also for c >= 2^30; under an earlier variant
\* nothing is skipped.
C19_AttributeSkip ==
    /\ pc = "attributes" => result # "panic"
    /\ (pc = "view" /\ result = "running")
          => LET c == local.num_attributes
                 a == reads[IndexOf("attributes")]
             IN /\ HasRead("attributes")
                /\ a.n = c /\ a.w = 4
                /\ player.attributes = c
                /\ IF VariantRank(variant) >= VariantRank("DefinitiveEdition")
                   THEN /\ Follows("attributes", "skip")
                        /\ BytesOf("skip") % 4 = 0
                        /\ BytesOf("skip") \div 4 = c
                   ELSE ~HasRead("skip")

\* C18: the unit lists are read in the order live, sleeping, doppelganger,
\* behind VisibleMap and VisibleResources; each list is list_size and
\* grow_size (4 bytes each), then the units up to the first absent one, all of
\* them kept; from 10.55 one sentinel 11 is checked in front of each list and
\* after the third, and Ok(player) follows that last check with no further
\* read.
ListShape(n) ==
    LET k == IF version >= 1055 THEN 1 ELSE 0
    IN /\ Len(reads) = k + 4
       /\ IF k = 1
          THEN reads[1] = Rd("marker", 1) /\ marker.expected = 11 /\ marker.found = 11
          ELSE marker = NoMarker
       /\ reads[k + 1] = Rd("list_size", 4)
       /\ reads[k + 2] = Rd("grow_size", 4)
       /\ reads[k + 3].f = "unit" /\ reads[k + 3].n = n
       /\ reads[k + 4].f = "unit_none"
C18_UnitLists ==
    /\ (pc = "units" /\ result = "running")
          => /\ HasRead("tiles") /\ HasRead("num_lists")
             /\ IndexOf("tiles") < IndexOf("num_lists")
             /\ reads[Len(reads)].f = "resources"
             /\ player.units = 0 /\ player.sleeping_units = 0
             /\ player.doppelganger_units = 0
    /\ (pc = "sleeping_units" /\ result = "running")
          => /\ ListShape(player.units)
             /\ player.sleeping_units = 0 /\ player.doppelganger_units = 0
    /\ (pc = "doppelganger_units" /\ result = "running")
          => /\ ListShape(player.sleeping_units)
             /\ player.doppelganger_units = 0
    /\ (pc = "last_marker" /\ result = "running")
          => ListShape(player.doppelganger_units)
    /\ result = "ok"
          => /\ pc = "last_marker"
             /\ IF version >= 1055
                THEN reads = <<Rd("marker", 1)>> /\ marker.expected = 11
                     /\ marker.found = 11
                ELSE reads = <<>> /\ marker = NoMarker
C18_Witness ==
    /\ result = "ok" /\ version >= 1055
    /\ player.units = 1 /\ player.sleeping_units = 1
    /\ player.doppelganger_units = 0

\* C20: a decoded HistoryInfo holds num_entries entries and as many events as
\* the count read behind the discriminator byte; the second and third header
\* words and the discriminator byte change neither, cause no failure, and the
\* record takes 12 + 4 num_entries + 1 + 4 + 21 num_events + 181 bytes.
HistoryInfoBytes ==
    LET RECURSIVE Sum(_)
        Sum(i) == IF i > IndexOf("_padding") THEN 0
                  ELSE reads[i].n * reads[i].w + Sum(i + 1)
    IN Sum(IndexOf("num_entries"))
C20_HistoryInfo ==
    /\ pc = "history" => result # "panic"
    /\ (pc = "diplomacy" /\ result = "running")
          => LET ne == ValOf("num_entries")
                 nev == ValOf("num_events")
             IN /\ player.history_info.entries = ne
                /\ player.history_info.events = nev
                /\ BytesOf("entries") = 4 * ne
                /\ BytesOf("events") = 21 * nev
                /\ IndexOf("_value") < IndexOf("num_events")
                /\ HistoryInfoBytes = 12 + 4 * ne + 1 + 4 + 21 * nev + 181

\* C21: on a finite source the forward scan of assert_marker! and the 11,11
\* scan both end: every read consumes one byte, a loop under way has not yet
\* passed what it looks for, it ends with the marker (the pair) just read or
\* with the end-of-stream error of a source that is exhausted, and it does
\* end.
Consumed(r) == SubSeq(r.source, 1, r.position - r.start)
C21_Ends ==
    LET q == Consumed(dat)
        n == Len(q)
    IN /\ n >= dat.turns
       /\ (dat.outcome = "running" /\ dat.kind = "assert_marker")
             => \A i \in 2..n : q[i] # dat.m
       /\ (dat.outcome = "running" /\ dat.kind = "resync") => NoPair(q)
       /\ (dat.outcome = "err" /\ dat.error = UnexpectedEnd)
             => n = Len(dat.source)
       /\ (dat.outcome \in {"passed", "broke"}
           \/ (dat.outcome = "err" /\ dat.error # UnexpectedEnd))
             => n >= 1 /\ q[n] = dat.m
       /\ dat.outcome = "broke" => n >= 2 /\ q[n - 1] = 11
C21_Consumes ==
    dat'.position = dat.position + 1 /\ dat'.position - dat'.start <= Len(dat.source)
C21_LoopsTerminate ==
    /\ []C21_Ends
    /\ [][C21_Consumes \/ dat'.error = UnexpectedEnd]_vars
    /\ <>(dat.outcome # "running")
C21_Witness ==
    /\ dat.kind = "resync" /\ dat.outcome = "broke"
    /\ dat.source = <<11, 0, 11, 11>> /\ dat.position = dat.start + 4

\* C22: when assert_marker! meets a byte other than m at reader position p and
\* the next byte equal to m lies k >= 1 bytes further, the error is
\* HeaderError with the same offset for every k, MissingMarker holds the
\* mismatching byte as found, and skipped is k: the bytes consumed from the
\* mismatching one up to the marker, the marker excluded.
C22_MarkerErrorFields ==
    (dat.kind = "assert_marker" /\ dat.outcome = "err"
     /\ dat.error # UnexpectedEnd)
        => LET p == dat.start
               k == CHOOSE d \in 1..Len(dat.source) :
                       /\ dat.source[d + 1] = dat.m
                       /\ \A i \in 2..d : dat.source[i] # dat.m
           IN /\ dat.source[1] # dat.m
              /\ dat.error.kind = "HeaderError"
              /\ dat.error.offset = p + 1
              /\ dat.error.cause.kind = "MissingMarker"
              /\ dat.error.cause.expected = dat.m
              /\ dat.error.cause.found = dat.source[1]
              /\ dat.error.cause.skipped = k
              /\ dat.position = p + k + 1
C22_Witness ==
    /\ dat.kind = "assert_marker" /\ dat.outcome = "err" /\ dat.start = 2
    /\ dat.m = 11 /\ dat.source = <<0, 22, 0, 11>>
    /\ dat.error.kind = "HeaderError" /\ dat.error.cause.skipped = 3

\* C23: what write_commands_to emits for a random map x is the payload region
\* finish reads: finish on a value with x's four lengths, over those bytes,
\* succeeds, consumes all of them and no byte behind them, and yields x's four
\* child sequences; and finish leaves the four lengths as they were, whether
\* it succeeds or not.
SameLengths(a, b) ==
    /\ Len(a.lands) = Len(b.lands) /\ Len(a.terrains) = Len(b.terrains)
    /\ Len(a.objects) = Len(b.objects) /\ Len(a.elevations) = Len(b.elevations)
C23_CommandsAreThePayload ==
    /\ (dat.kind = "RandomMapInfo" /\ dat.dir = "commands_back"
        /\ dat.phase \notin {"start", "written"})
          => /\ dat.phase = "done"
             /\ dat.consumed = Len(dat.bytes_out)
             /\ dat.value_back = dat.value
             /\ SameLengths(dat.value_back, dat.value)
    /\ (dat.kind = "RandomMapInfo" /\ dat.dir = "commands"
        /\ dat.phase \in {"finished", "failed", "panicked", "done"})
          => SameLengths(dat.value, RandomMapInfoFromBytes(dat.bytes_in))
C23_Witness ==
    /\ dat.kind = "RandomMapInfo" /\ dat.dir = "commands_back"
    /\ dat.phase = "done"
    /\ dat.bytes_in # <<>>
    /\ Len(dat.value.lands) = 1 /\ Len(dat.value.terrains) = 1
    /\ Len(dat.value.objects) = 1 /\ Len(dat.value.elevations) = 1
    /\ dat.value.lands[1].terrain_type = 255
    /\ dat.value_back.elevations[1].percent = 255
    /\ dat.consumed = 44 + 44 + 8 + 24 + 8 + 44 + 8 + 24
====
